---- MODULE Spec2Model ----
(***************************************************************************)
(* Fixed-capacity binary Merkle tree (MerkleTree<H, HEIGHT>) and its       *)
(* membership proofs (Proof<H>).                                           *)
(*                                                                         *)
(* Byte buffers are sequences of integers 0..255.  The digest algorithm H  *)
(* is modelled symbolically: Digest(data) wraps its input between two      *)
(* markers outside the byte range, so it is injective and the              *)
(* concatenation of two digests can be split in only one way (as for the   *)
(* fixed-length output of a collision-free hash).                          *)
(* Rust vectors are 0-based; Get/Set translate to 1-based sequences.       *)
(***************************************************************************)
EXTENDS Integers, Sequences, FiniteSets, TLC

\* largest HEIGHT const parameter explored
MaxHeight == 2

\* leaf values offered to from_data / insert / verify: the sentinel text
\* "0" itself and another one-byte buffer
Values == {<<48>>, <<7>>}

VARIABLES HEIGHT, st, leaves, tree, ret

vars == <<HEIGHT, st, leaves, tree, ret>>

----------------------------------------------------------------------------
\* 2_usize.pow(e)
RECURSIVE Pow2(_)
Pow2(e) == IF e <= 0 THEN 1 ELSE 2 * Pow2(e - 1)

\* v[k] on a Vec, 0-based; the empty buffer stands in for a faulting read
Get(v, k) == IF k >= 0 /\ k < Len(v) THEN v[k + 1] ELSE <<>>

\* v[k] = x on a Vec, 0-based
Set(v, k, x) == IF k >= 0 /\ k < Len(v) THEN [v EXCEPT ![k + 1] = x] ELSE v

\* does the index fault (panic) on a Vec of this length
Oob(v, k) == k < 0 \/ k >= Len(v)

\* H::digest(data)
Digest(data) == <<256>> \o data \o <<257>>

\* MerkleTree::hash
hash(data) == Digest(data)

\* MerkleTree::hash_pair
hash_pair(left, right) == Digest(left \o right)

\* H::digest(b"0"), the padding hash
ZeroHash == Digest(<<48>>)

\* all sequences over S of length at most n
RECURSIVE SeqsUpTo(_, _)
SeqsUpTo(S, n) ==
    IF n = 0 THEN {<<>>}
    ELSE LET shorter == SeqsUpTo(S, n - 1)
         IN  shorter \cup {Append(s, x) : s \in {t \in shorter : Len(t) = n - 1}, x \in S}

----------------------------------------------------------------------------
\* the layers above `hashes` in build_tree: for h in 0..HEIGHT
RECURSIVE BuildLayers(_, _)
BuildLayers(hashes, h) ==
    IF h >= HEIGHT THEN <<>>
    ELSE LET next_layer == [j \in 1..((Len(hashes) + 1) \div 2) |->
                               hash_pair(Get(hashes, 2 * (j - 1)), Get(hashes, 2 * (j - 1) + 1))]
         IN  next_layer \o BuildLayers(next_layer, h + 1)

\* build_tree padding with the digest of the empty buffer
build_treeEmptyPad(lv) ==
    LET hashes == [j \in 1..Pow2(HEIGHT) |->
                      IF j <= Len(lv) THEN hash(lv[j]) ELSE Digest(<<>>)]
    IN  hashes \o BuildLayers(hashes, 0)

\* MerkleTree::build_tree
build_tree(lv) ==
    LET hashes == [j \in 1..Pow2(HEIGHT) |->
                      IF j <= Len(lv) THEN hash(lv[j]) ELSE ZeroHash]
    IN  hashes \o BuildLayers(hashes, 0)

\* from_data refusing a leaf list that exactly fills the tree
from_dataGe(lv) ==
    IF Len(lv) >= Pow2(HEIGHT)
    THEN [res |-> "InsufficientHeight", leaves |-> <<>>, tree |-> <<>>]
    ELSE [res |-> "Ok", leaves |-> lv, tree |-> build_tree(lv)]

\* MerkleTree::from_data: the Result and, on Ok, the fields of Self
from_data(lv) ==
    IF Len(lv) > Pow2(HEIGHT)
    THEN [res |-> "InsufficientHeight", leaves |-> <<>>, tree |-> <<>>]
    ELSE [res |-> "Ok", leaves |-> lv, tree |-> build_tree(lv)]

\* insert's loop taking the node at index + 1 as the sibling on every level
RECURSIVE InsertLoopEvenOnly(_, _, _, _, _)
InsertLoopEvenOnly(t, index, offset, i, panic) ==
    IF i >= HEIGHT THEN [tree |-> t, panic |-> panic]
    ELSE LET a == offset + index
             b == offset + index + 1
             current_hash == hash_pair(Get(t, a), Get(t, b))
             index2 == index \div 2
             offset2 == offset + Pow2(HEIGHT - i)
         IN  InsertLoopEvenOnly(Set(t, offset2 + index2, current_hash), index2, offset2, i + 1,
                                panic \/ Oob(t, a) \/ Oob(t, b) \/ Oob(t, offset2 + index2))

\* insert's loop advancing the offset by the size of the level above
RECURSIVE InsertLoopBadOffset(_, _, _, _, _)
InsertLoopBadOffset(t, index, offset, i, panic) ==
    IF i >= HEIGHT THEN [tree |-> t, panic |-> panic]
    ELSE LET a == IF index % 2 = 0 THEN offset + index ELSE offset + index - 1
             b == IF index % 2 = 0 THEN offset + index + 1 ELSE offset + index
             current_hash == hash_pair(Get(t, a), Get(t, b))
             index2 == index \div 2
             offset2 == offset + Pow2(HEIGHT - i - 1)
         IN  InsertLoopBadOffset(Set(t, offset2 + index2, current_hash), index2, offset2, i + 1,
                                 panic \/ Oob(t, a) \/ Oob(t, b) \/ Oob(t, offset2 + index2))

\* the loop of insert: for i in 0..HEIGHT
RECURSIVE InsertLoop(_, _, _, _, _)
InsertLoop(t, index, offset, i, panic) ==
    IF i >= HEIGHT THEN [tree |-> t, panic |-> panic]
    ELSE LET a == IF index % 2 = 0 THEN offset + index ELSE offset + index - 1
             b == IF index % 2 = 0 THEN offset + index + 1 ELSE offset + index
             current_hash == hash_pair(Get(t, a), Get(t, b))
             index2 == index \div 2
             offset2 == offset + Pow2(HEIGHT - i)
         IN  InsertLoop(Set(t, offset2 + index2, current_hash), index2, offset2, i + 1,
                        panic \/ Oob(t, a) \/ Oob(t, b) \/ Oob(t, offset2 + index2))

\* insert rejecting only a tree that is over capacity
insertGt(lv, t, value) ==
    IF Len(lv) > Pow2(HEIGHT)
    THEN [res |-> "MerkleTreeFull", leaves |-> lv, tree |-> t]
    ELSE LET lv2 == Append(lv, value)
             index == Len(lv2) - 1
             r == InsertLoop(Set(t, index, hash(value)), index, 0, 0, Oob(t, index))
         IN  [res |-> IF r.panic THEN "panic" ELSE "Ok", leaves |-> lv2, tree |-> r.tree]

\* MerkleTree::insert: the Result and the fields of self afterwards
insert(lv, t, value) ==
    IF Len(lv) = Pow2(HEIGHT)
    THEN [res |-> "MerkleTreeFull", leaves |-> lv, tree |-> t]
    ELSE LET lv2 == Append(lv, value)
             index == Len(lv2) - 1
             r == InsertLoop(Set(t, index, hash(value)), index, 0, 0, Oob(t, index))
         IN  [res |-> IF r.panic THEN "panic" ELSE "Ok", leaves |-> lv2, tree |-> r.tree]

----------------------------------------------------------------------------
\* Proof::new
Proof_new(lemma, path) == [lemma |-> lemma, path |-> path]

\* the loop of get_proof: for i in 0..HEIGHT
RECURSIVE ProofLoop(_, _, _, _, _, _, _)
ProofLoop(t, index, offset, i, lemma, path, panic) ==
    IF i >= HEIGHT THEN [lemma |-> lemma, path |-> path, panic |-> panic]
    ELSE LET pos == (index % 2 = 0)
             s == IF pos THEN offset + index + 1 ELSE offset + index - 1
         IN  ProofLoop(t, index \div 2, offset + Pow2(HEIGHT - i), i + 1,
                       Append(lemma, Get(t, s)), Append(path, pos), panic \/ Oob(t, s))

\* get_proof letting the index one past the last leaf through
get_proofGt(lv, t, index) ==
    IF index > Len(lv)
    THEN [res |-> "IndexOutOfBounds", proof |-> Proof_new(<<>>, <<>>)]
    ELSE LET r == ProofLoop(t, index, 0, 0, <<>>, <<>>, FALSE)
         IN  [res |-> IF r.panic THEN "panic" ELSE "Ok", proof |-> Proof_new(r.lemma, r.path)]

\* MerkleTree::get_proof: the Result and, on Ok, the Proof
get_proof(lv, t, index) ==
    IF index >= Len(lv)
    THEN [res |-> "IndexOutOfBounds", proof |-> Proof_new(<<>>, <<>>)]
    ELSE LET r == ProofLoop(t, index, 0, 0, <<>>, <<>>, FALSE)
         IN  [res |-> IF r.panic THEN "panic" ELSE "Ok", proof |-> Proof_new(r.lemma, r.path)]

\* Option: None is <<>>, Some(x) is <<x>>
None == <<>>
Some(x) == <<x>>

\* root taking tree.first()
rootFirst(t) == IF Len(t) = 0 THEN None ELSE Some(t[1])

\* MerkleTree::root
root(t) == IF Len(t) = 0 THEN None ELSE Some(t[Len(t)])

\* MerkleTree::get_value
get_value(lv, index) == IF index >= 0 /\ index < Len(lv) THEN Some(lv[index + 1]) ELSE None

\* Proof::hash_pair
Proof_hash_pair(left, right) == Digest(left \o right)

\* the loop of verify over lemma.iter().zip(path.iter()), from pair k on
RECURSIVE VerifyLoop(_, _, _, _)
VerifyLoop(lemma, path, k, current_hash) ==
    IF k > Len(lemma) \/ k > Len(path) THEN current_hash
    ELSE VerifyLoop(lemma, path, k + 1,
                    IF path[k] THEN Proof_hash_pair(current_hash, lemma[k])
                    ELSE Proof_hash_pair(lemma[k], current_hash))

\* verify comparing only the lengths of the computed hash and the root
verifyLenOnly(proof, rt, key) ==
    IF Len(proof.lemma) = 0 THEN FALSE
    ELSE Len(VerifyLoop(proof.lemma, proof.path, 1, Digest(key))) = Len(rt)

\* Proof::verify
verify(proof, rt, key) ==
    IF Len(proof.lemma) = 0 THEN FALSE
    ELSE VerifyLoop(proof.lemma, proof.path, 1, Digest(key)) = rt

----------------------------------------------------------------------------
NoRet == [op |-> "none", res |-> "none", data |-> <<>>, value |-> <<>>, index |-> 0,
          out |-> <<>>, lemma |-> <<>>, path |-> <<>>, root |-> <<>>]

Init ==
    /\ HEIGHT \in 0..MaxHeight
    /\ st = "none"
    /\ leaves = <<>>
    /\ tree = <<>>
    /\ ret = NoRet

\* MerkleTree::<H, HEIGHT>::from_data(data)
FromData ==
    /\ st = "none"
    /\ \E data \in SeqsUpTo(Values, Pow2(HEIGHT) + 1) :
         LET r == from_data(data)
         IN  /\ st' = IF r.res = "Ok" THEN "built" ELSE "none"
             /\ leaves' = r.leaves
             /\ tree' = r.tree
             /\ ret' = [NoRet EXCEPT !.op = "from_data", !.res = r.res, !.data = data]
    /\ UNCHANGED HEIGHT

\* tree.insert(value)
Insert ==
    /\ st = "built"
    /\ \E value \in Values :
         LET r == insert(leaves, tree, value)
         IN  /\ leaves' = r.leaves
             /\ tree' = r.tree
             /\ ret' = [NoRet EXCEPT !.op = "insert", !.res = r.res, !.value = value]
    /\ UNCHANGED <<HEIGHT, st>>

\* the leaves whose proofs are verified, and the indices queried: the first,
\* the last, and the first unused one
LeafIndices == {0, Len(leaves) - 1} \cap 0..(Len(leaves) - 1)
QueryIndices == LeafIndices \cup {Len(leaves)}

\* tree.get_proof(index)
GetProof ==
    /\ st = "built"
    /\ \E index \in QueryIndices :
         LET r == get_proof(leaves, tree, index)
         IN  ret' = [NoRet EXCEPT !.op = "get_proof", !.res = r.res, !.index = index,
                                  !.lemma = r.proof.lemma, !.path = r.proof.path]
    /\ UNCHANGED <<HEIGHT, st, leaves, tree>>

\* tree.root()
Root ==
    /\ st = "built"
    /\ LET r == root(tree)
       IN  ret' = [NoRet EXCEPT !.op = "root", !.res = IF r = None THEN "None" ELSE "Some",
                                !.out = r]
    /\ UNCHANGED <<HEIGHT, st, leaves, tree>>

\* tree.get_value(index)
GetValue ==
    /\ st = "built"
    /\ \E index \in QueryIndices :
         LET r == get_value(leaves, index)
         IN  ret' = [NoRet EXCEPT !.op = "get_value", !.index = index,
                                  !.res = IF r = None THEN "None" ELSE "Some", !.out = r]
    /\ UNCHANGED <<HEIGHT, st, leaves, tree>>

\* digests a caller may put in place of a sibling
SomeDigests == {ZeroHash, Digest(<<>>)}

\* roots handed to verify: the tree's own and a foreign one
RootInputs == {tree[Len(tree)], Digest(<<>>)}

\* a proof of the tree with one sibling replaced
Replaced(p) ==
    {Proof_new([p.lemma EXCEPT ![j] = d], p.path) :
        j \in 1..Len(p.lemma), d \in SomeDigests}

\* hand-made proofs whose lemma and path differ in length
Mismatched(p) ==
    {Proof_new(Append(p.lemma, ZeroHash), p.path),
     Proof_new(p.lemma, SubSeq(p.path, 1, Len(p.path) - 1)),
     Proof_new(<<<<>>>>, <<>>),
     Proof_new(<<>>, <<TRUE>>)}

\* what verify is called with for leaf i: the tree's proof against every root
\* and key, and the altered proofs and the empty proof against the tree's
\* root and the leaf's own value
VerifyInputsAt(i) ==
    LET p == get_proof(leaves, tree, i).proof
    IN  {<<p, rt, key>> : rt \in RootInputs, key \in Values}
          \cup {<<q, tree[Len(tree)], leaves[i + 1]>> :
                   q \in Replaced(p) \cup Mismatched(p) \cup {Proof_new(<<>>, <<>>)}}

ProofInputs == UNION {VerifyInputsAt(i) : i \in LeafIndices}

\* proof.verify(root, key)
Verify ==
    /\ st = "built"
    /\ \E in \in ProofInputs :
         LET proof == in[1]
             rt == in[2]
             key == in[3]
         IN  ret' = [NoRet EXCEPT !.op = "verify", !.lemma = proof.lemma, !.path = proof.path,
                                  !.root = rt, !.value = key,
                                  !.res = IF verify(proof, rt, key) THEN "true" ELSE "false"]
    /\ UNCHANGED <<HEIGHT, st, leaves, tree>>

Next == FromData \/ Insert \/ GetProof \/ Root \/ GetValue \/ Verify

Spec == Init /\ [][Next]_vars
----------------------------------------------------------------------------
\* offset(k): where level k starts in the node table
RECURSIVE Offset(_)
Offset(k) == IF k <= 0 THEN 0 ELSE Offset(k - 1) + Pow2(HEIGHT - (k - 1))

\* the top hash over level-0 slots lo .. lo + 2^k - 1, by halving
RECURSIVE TopHash(_, _, _)
TopHash(lv, lo, k) ==
    IF k = 0 THEN (IF lo < Len(lv) THEN Digest(lv[lo + 1]) ELSE Digest(<<48>>))
    ELSE Digest(TopHash(lv, lo, k - 1) \o TopHash(lv, lo + Pow2(k - 1), k - 1))

\* the node-table entries a successful insert at leaf position n may write
Written(n) == {n} \cup {Offset(k) + (n \div Pow2(k)) : k \in 1..HEIGHT}

\* replacement digests and leaf values tried against a valid proof
TamperDigests ==
    {tree[j] : j \in 1..Len(tree)} \cup {Digest(v) : v \in Values}
        \cup {Digest(<<>>), <<>>, <<256, 49, 257>>}
TamperKeys == Values \cup {<<>>, <<49>>, <<48, 48>>}

\* C1: while the tree is not full, insert(v) succeeds and the root afterwards is
\* the root of the tree from_data builds from the old leaves followed by v
AppendCorrectness ==
    st = "built" =>
        /\ \A v \in Values :
             Len(leaves) < Pow2(HEIGHT) =>
                 LET r == insert(leaves, tree, v)
                     b == from_data(Append(leaves, v))
                 IN  /\ r.res = "Ok"
                     /\ b.res = "Ok"
                     /\ root(r.tree) = root(b.tree)
                     /\ root(r.tree) = Some(TopHash(Append(leaves, v), 0, HEIGHT))
        /\ (ret.op = "insert" /\ ret.res = "Ok") =>
               root(tree) = Some(TopHash(leaves, 0, HEIGHT))

AppendCorrectnessWitness ==
    /\ ret.op = "insert" /\ ret.res = "Ok"
    /\ HEIGHT = 2 /\ Len(leaves) = 4 /\ leaves[3] # leaves[4]

\* C2: every proof the tree hands out for a stored leaf verifies against the
\* tree's root and that leaf's value, at every height
ProofRoundTrip ==
    st = "built" =>
        \A i \in 0..(Len(leaves) - 1) :
            /\ get_proof(leaves, tree, i).res = "Ok"
            /\ verify(get_proof(leaves, tree, i).proof, root(tree)[1], get_value(leaves, i)[1])

\* C3: a proof whose lemma and path differ in length is never accepted
MismatchedProofRejected ==
    (ret.op = "verify" /\ Len(ret.lemma) # Len(ret.path)) => ret.res = "false"

\* C4: a proof of the tree with one sibling replaced by a different digest, or
\* checked against a different leaf value, does not verify against the root
TamperDetection ==
    st = "built" =>
        \A i \in 0..(Len(leaves) - 1) :
            LET p == get_proof(leaves, tree, i).proof
                rt == root(tree)[1]
                v == get_value(leaves, i)[1]
            IN  /\ \A j \in 1..Len(p.lemma), d \in TamperDigests :
                     d # p.lemma[j] =>
                         ~verify(Proof_new([p.lemma EXCEPT ![j] = d], p.path), rt, v)
                /\ \A k \in TamperKeys : k # v => ~verify(p, rt, k)

TamperDetectionWitness ==
    /\ ret.op = "verify" /\ ret.res = "false" /\ HEIGHT = 2
    /\ ret.root = tree[Len(tree)]
    /\ \E i \in 0..(Len(leaves) - 1) :
         LET p == get_proof(leaves, tree, i).proof
         IN  /\ ret.value = leaves[i + 1]
             /\ ret.path = p.path
             /\ Len(ret.lemma) = Len(p.lemma)
             /\ ret.lemma[1] = p.lemma[1]
             /\ ret.lemma[2] # p.lemma[2]

\* C5: insert on a tree holding 2^HEIGHT leaves fails with MerkleTreeFull and
\* changes neither the leaf list nor the node table
FullTreeRejection ==
    [][(ret'.op = "insert" /\ Len(leaves) = Pow2(HEIGHT)) =>
           (ret'.res = "MerkleTreeFull" /\ leaves' = leaves /\ tree' = tree)]_vars

FullTreeRejectionWitness ==
    ret.op = "insert" /\ ret.res = "MerkleTreeFull" /\ Len(leaves) = Pow2(HEIGHT)

\* C6: from_data fails with InsufficientHeight exactly when there are more than
\* 2^HEIGHT leaves, and otherwise succeeds keeping the leaves in order
HeightCapacity ==
    ret.op = "from_data" =>
        /\ ret.res \in {"Ok", "InsufficientHeight"}
        /\ (ret.res = "InsufficientHeight") <=> (Len(ret.data) > Pow2(HEIGHT))
        /\ (ret.res = "Ok") => (st = "built" /\ leaves = ret.data)

HeightCapacityWitness ==
    ret.op = "from_data" /\ ret.res = "Ok" /\ HEIGHT = 2 /\ Len(ret.data) = 4

\* C7: get_proof fails with IndexOutOfBounds and get_value is None exactly for
\* indices at or past the leaf count; below it get_proof returns a proof read
\* from inside the node table and get_value returns that leaf
Bounds ==
    st = "built" =>
        \A i \in 0..(Pow2(HEIGHT) + 1) :
            LET g == get_proof(leaves, tree, i)
            IN  /\ (g.res = "IndexOutOfBounds") <=> (i >= Len(leaves))
                /\ (get_value(leaves, i) = None) <=> (i >= Len(leaves))
                /\ i < Len(leaves) =>
                       /\ g.res = "Ok"
                       /\ Len(g.proof.lemma) = HEIGHT
                       /\ Len(g.proof.path) = HEIGHT
                       /\ get_value(leaves, i) = Some(leaves[i + 1])

BoundsWitness ==
    /\ ret.op = "get_proof" /\ ret.res = "IndexOutOfBounds"
    /\ ret.index = Len(leaves) /\ Len(leaves) > 0 /\ Len(leaves) < Pow2(HEIGHT)

\* C8 as stated: root() is the top hash for HEIGHT >= 1 and absent for HEIGHT = 0
RootAbsentAtZeroHeight ==
    ret.op = "root" =>
        /\ HEIGHT >= 1 => ret.out = Some(TopHash(leaves, 0, HEIGHT))
        /\ HEIGHT = 0 => ret.out = None

\* C8 amended: root() is present at every height and is the top hash; at
\* HEIGHT = 0 that is the hash of the only leaf, or the padding hash
RootAlwaysPresent ==
    /\ st = "built" => root(tree) = Some(TopHash(leaves, 0, HEIGHT))
    /\ ret.op = "root" =>
           /\ ret.res = "Some"
           /\ ret.out = Some(TopHash(leaves, 0, HEIGHT))
           /\ HEIGHT = 0 =>
                  ret.out = Some(IF Len(leaves) = 1 THEN Digest(leaves[1]) ELSE Digest(<<48>>))

RootAlwaysPresentWitness ==
    ret.op = "root" /\ ret.res = "Some" /\ HEIGHT = 0 /\ Len(leaves) = 1

\* C9: a successful insert appends exactly one leaf and changes no node-table
\* entry other than slot n and, per level k in 1..HEIGHT, offset(k) + n / 2^k
InsertFrame ==
    [][(ret'.op = "insert" /\ ret'.res = "Ok") =>
           /\ leaves' = Append(leaves, ret'.value)
           /\ Len(tree') = Len(tree)
           /\ Cardinality(Written(Len(leaves))) = HEIGHT + 1
           /\ \A k \in 0..(Len(tree) - 1) :
                  k \notin Written(Len(leaves)) => Get(tree', k) = Get(tree, k)
           /\ Get(tree', Len(leaves)) = Digest(ret'.value)]_vars

InsertFrameWitness ==
    /\ ret.op = "insert" /\ ret.res = "Ok" /\ HEIGHT = 2 /\ Len(leaves) = 2
    /\ Get(tree, 2) = ZeroHash /\ Get(tree, 3) = ZeroHash

\* C10: the node table always has 2^(HEIGHT+1) - 1 entries, level 0 holds the
\* leaf hashes followed by the padding hash, every higher entry combines its
\* two children, and the table is the one from_data builds for the leaves
NodeTableInvariant ==
    st = "built" =>
        /\ Len(leaves) <= Pow2(HEIGHT)
        /\ Len(tree) = Pow2(HEIGHT + 1) - 1
        /\ \A j \in 0..(Pow2(HEIGHT) - 1) :
               Get(tree, j) = IF j < Len(leaves) THEN Digest(leaves[j + 1]) ELSE Digest(<<48>>)
        /\ \A k \in 1..HEIGHT : \A j \in 0..(Pow2(HEIGHT - k) - 1) :
               Get(tree, Offset(k) + j) =
                   Digest(Get(tree, Offset(k - 1) + 2 * j) \o Get(tree, Offset(k - 1) + 2 * j + 1))
        /\ tree = from_data(leaves).tree

NodeTableInvariantWitness ==
    /\ ret.op = "insert" /\ ret.res = "MerkleTreeFull" /\ HEIGHT = 2
    /\ leaves[1] = <<7>> /\ leaves[4] = <<48>>
====
